---- MODULE Spec2Model ----
(***************************************************************************)
(* Gesture-driven particle scene: the hand tracker (HandTracker.tsx), the  *)
(* formation state machine (App.tsx) and the per-frame updates of the      *)
(* instance populations (Scene3D.tsx).                                     *)
(*                                                                         *)
(* Units.  Landmark coordinates are normalized image coordinates in [0,1], *)
(* kept here in hundredths (0..100).  Angles are in degrees.               *)
(***************************************************************************)
EXTENDS Integers, Sequences, FiniteSets, TLC

VARIABLES
    handData,     \* App: useState<HandData>, the value of the committed render
    handQueue,    \* App: setHandData calls not yet rendered (React update queue)
    treeState,    \* App: useState<TreeState>, the value of the committed render
    treeQueue,    \* App: setTreeState calls not yet rendered
    effect,       \* App: the transition effect scheduled by the last commit (its closure), or NoEffect
    lastDeps,     \* App: dependency array stored by the last commit
    flips,        \* history: setTreeState calls of the effect since the last hand update was committed
    canvasRef,    \* HandTracker: canvasRef.current is non-null (the tree is mounted)
    cleanupDue,   \* HandTracker: unmounted, effect cleanup not yet run
    cameraOn,     \* HandTracker: camera.start() called and camera.stop() not yet
    handsClosed,  \* HandTracker: hands.close() has been called
    sendPending,  \* HandTracker: a hands.send() has not yet produced its result
    lastFrame,    \* the results object handed to the last onResults call
    lastOutcome,  \* how the last onResults call ended
    lastSignal,   \* the HandData the last onResults call passed to onHandUpdate, if any
    seqState,     \* history: the transition rules applied to each delivered signal in turn
    lateResult,   \* history: onResults was called after the cleanup had run
    lateUpdate,   \* history: onHandUpdate was invoked after the cleanup had run
    clock,        \* Scene3D: state.clock.elapsedTime, in hundredths of a second
    frames,       \* Scene3D: frames rendered so far
    lastDelta,    \* Scene3D: the delta of the last frame, in hundredths of a second
    currentPositions,      \* EmojiLayer: currentPositions.current
    dummyScale,            \* EmojiLayer: dummy.scale.x of the shared Object3D
    ornamentScale,         \* EmojiLayer: the scale written to each instance matrix
    opacityRef,            \* TreeTopStar: opacityRef.current
    starScale,             \* TreeTopStar: groupRef.current.scale
    targetCameraRotation,  \* Scene3D: targetCameraRotation.current
    cameraPosition,        \* CameraController: state.camera.position
    frameDetected,         \* history: handData.detected as the last CameraController frame read it
    rippleDummy,           \* BaseRipple: radial distance of dummy.position
    rippleScale,           \* BaseRipple: the scale written to each instance matrix
    rippleRadius,          \* BaseRipple: radial distance of the position written to each instance matrix
    rippleColor,           \* BaseRipple: the opacity factor of each instance colour
    rippleMatrixAt,        \* history: the frame in which each entry of the ripple instanceMatrix was last written
    rippleColorAt,         \* history: the frame in which each entry of the ripple instanceColor was last written
    snow,                  \* Snowfall: emojiData (x, y, z of each flake)
    textPosition,          \* MerryChristmasText: the position written to each instance matrix
    textScale,             \* MerryChristmasText: the scale written to each instance matrix, in millionths
    textColor,             \* MerryChristmasText: the colour written for each instance
    textIntensity          \* MerryChristmasText: sweepIntensity of each instance in the last frame

trackerVars == <<canvasRef, cleanupDue, cameraOn, handsClosed, sendPending,
                 lastFrame, lastOutcome, lastSignal, seqState, lateResult, lateUpdate>>
reactVars == <<handData, handQueue, treeState, treeQueue, effect, lastDeps, flips>>
clockVars == <<clock, frames, lastDelta>>
smoothVars == <<currentPositions, dummyScale, ornamentScale, opacityRef, starScale,
                targetCameraRotation, cameraPosition, frameDetected>>
rippleVars == <<rippleDummy, rippleScale, rippleRadius, rippleColor,
                rippleMatrixAt, rippleColorAt>>
textVars == <<textPosition, textScale, textColor, textIntensity>>
sceneVars == <<clockVars, smoothVars, rippleVars, snow, textVars>>
vars == <<reactVars, trackerVars, sceneVars>>

----------------------------------------------------------------------------
(* Bounds *)

\* setHandData calls that may pile up before React renders
MaxQueue == 2

\* frames the model renders
MaxFrames == 2

\* ornaments in the modelled EmojiLayer
LayerSize == 2

\* ripple instances per ring (450 in the source)
particlesPerRing == 2

\* snow flakes (100 in the source)
emojiCount == 2

\* sampled points of the text banner (particles.length in the source)
particleCount == 2

----------------------------------------------------------------------------
(* types.ts *)

CLOSED == "CLOSED"
SCATTERED == "SCATTERED"
TreeState == {CLOSED, SCATTERED}

----------------------------------------------------------------------------
(* HandTracker.tsx: the gesture classifier inside hands.onResults *)

Undefined == [undefined |-> TRUE]

Pt(x, y) == [x |-> x, y |-> y]

\* landmarks[idx] of a JavaScript array: undefined beyond its length
At(landmarks, idx) ==
    IF idx < Len(landmarks) THEN landmarks[idx + 1] ELSE Undefined

TipIdx == <<8, 12, 16, 20>>

\* Math.sqrt on the hundredths grid (exact on the frames drawn below, whose
\* wrist-to-tip distances are whole hundredths)
Sqrt(n) == CHOOSE r \in 0..n : r * r <= n /\ (r + 1) * (r + 1) > n

Dist(tip, wrist) ==
    LET dx == tip.x - wrist.x
        dy == tip.y - wrist.y
    IN  Sqrt(dx * dx + dy * dy)

\* fingerTips.reduce(...): the sum of the four wrist-to-tip distances
RECURSIVE SumDist(_, _)
SumDist(landmarks, k) ==
    IF k = 0 THEN 0
    ELSE SumDist(landmarks, k - 1) + Dist(At(landmarks, TipIdx[k]), At(landmarks, 0))

\* 0.35 in hundredths
OPEN_THRESHOLD == 35

\* const isOpen = avgDist > 0.35, with avgDist = sum / fingerTips.length
IsOpenAtThreshold(landmarks) == SumDist(landmarks, Len(TipIdx)) >= OPEN_THRESHOLD * Len(TipIdx)
IsOpen(landmarks) == SumDist(landmarks, Len(TipIdx)) > OPEN_THRESHOLD * Len(TipIdx)

\* Math.atan2(dy, dx) in degrees, on the directions the frames below use
Atan2(dy, dx) ==
    CASE dy = 0 /\ dx >= 0 -> 0
      [] dy = 0 /\ dx < 0  -> 180
      [] dx = 0 /\ dy > 0  -> 90
      [] dx = 0 /\ dy < 0  -> -90
      [] dx = dy /\ dx > 0 -> 45
      [] dx = dy /\ dx < 0 -> -135
      [] dx = -dy /\ dx > 0 -> -45
      [] dx = -dy /\ dx < 0 -> 135

\* reading .x of an undefined landmark raises a TypeError: the reduce reads
\* tip.x and wrist.x, then middleBase.x is read
ClassifyThrows(landmarks) ==
    \/ \E k \in 1..Len(TipIdx) :
          At(landmarks, TipIdx[k]) = Undefined \/ At(landmarks, 0) = Undefined
    \/ At(landmarks, 9) = Undefined

\* the HandData passed to onHandUpdate for a hand
Classify(landmarks) ==
    LET wrist == At(landmarks, 0)
        middleBase == At(landmarks, 9)
        dx == middleBase.x - wrist.x
        dy == middleBase.y - wrist.y
    IN  [ isOpen   |-> IsOpen(landmarks),
          rotation |-> <<dy * 2, dx * 2, Atan2(dy, dx)>>,
          position |-> <<middleBase.x, middleBase.y>>,
          detected |-> TRUE ]

\* the HandData passed to onHandUpdate when no hand is in the results
NoHand ==
    [ isOpen   |-> FALSE,
      rotation |-> <<0, 0, 0>>,
      position |-> <<0, 0>>,
      detected |-> FALSE ]

\* results.multiHandLandmarks && results.multiHandLandmarks.length > 0
HasHand(results) == Len(results) > 0

----------------------------------------------------------------------------
(* Detector results drawn by the model: results.multiHandLandmarks *)

\* a hand of n landmarks: wrist w, palm base (index 9) at w + m, the four
\* fingertips at w + t[k]; the other landmarks sit on the wrist
Hand(n, w, m, t) ==
    [ i \in 1..n |->
        CASE i - 1 = 9  -> Pt(w.x + m[1], w.y + m[2])
          [] i - 1 = 8  -> Pt(w.x + t[1][1], w.y + t[1][2])
          [] i - 1 = 12 -> Pt(w.x + t[2][1], w.y + t[2][2])
          [] i - 1 = 16 -> Pt(w.x + t[3][1], w.y + t[3][2])
          [] i - 1 = 20 -> Pt(w.x + t[4][1], w.y + t[4][2])
          [] OTHER      -> w ]

Wrist == Pt(50, 90)
Up(d) == <<0, -d>>

OpenHand      == Hand(21, Wrist, Up(20), <<Up(40), Up(45), Up(40), Up(36)>>)
FistHand      == Hand(21, Wrist, Up(20), <<Up(10), Up(12), Up(10), Up(8)>>)
\* mean distance exactly 0.35: 35, 35, 30 and 40 (a 24-32-40 triangle)
BoundaryHand  == Hand(21, Wrist, Up(20), <<Up(35), Up(35), Up(30), <<24, -32>>>>)
\* mean distance 0.3525
JustOpenHand  == Hand(21, Wrist, Up(20), <<Up(35), Up(36), Up(30), <<24, -32>>>>)
\* incomplete frames: landmarks 9..20, 17..20 and everything missing
ShortHand9    == Hand(9, Wrist, Up(20), <<Up(40), Up(45), Up(40), Up(36)>>)
ShortHand17   == Hand(17, Wrist, Up(20), <<Up(40), Up(45), Up(40), Up(36)>>)
EmptyHand     == <<>>

Frames ==
    { <<>>, <<OpenHand>>, <<FistHand>>, <<BoundaryHand>>, <<JustOpenHand>>,
      <<ShortHand9>>, <<ShortHand17>>, <<EmptyHand>> }

NoFrame == <<"none">>
NoSignal == [none |-> TRUE]

----------------------------------------------------------------------------
(* App.tsx: the formation state machine *)

NoEffect == [none |-> TRUE]

\* the dependency array of the transition effect
Deps(hand, tree) == <<hand.isOpen, hand.detected, tree>>

\* the body of the transition effect: the tree state it asks for, or the
\* current one when it calls no setter
TransitionResetBug(hand, tree) ==
    IF hand.detected
    THEN IF hand.isOpen /\ tree = CLOSED THEN SCATTERED
         ELSE IF ~hand.isOpen /\ tree = SCATTERED THEN CLOSED
         ELSE tree
    ELSE CLOSED
TransitionToggleBug(hand, tree) ==
    IF hand.detected
    THEN IF hand.isOpen THEN (IF tree = CLOSED THEN SCATTERED ELSE CLOSED)
         ELSE IF tree = SCATTERED THEN CLOSED
         ELSE tree
    ELSE tree
TransitionStuckBug(hand, tree) ==
    IF hand.detected
    THEN IF hand.isOpen /\ tree = CLOSED THEN SCATTERED
         ELSE IF ~hand.isOpen /\ tree = CLOSED THEN CLOSED
         ELSE tree
    ELSE tree
Transition(hand, tree) ==
    IF hand.detected
    THEN IF hand.isOpen /\ tree = CLOSED THEN SCATTERED
         ELSE IF ~hand.isOpen /\ tree = SCATTERED THEN CLOSED
         ELSE tree
    ELSE tree

\* onHandUpdate = setHandData: enqueue a state update (ignored by React once
\* the component is unmounted)
OnHandUpdate(data) ==
    /\ handQueue' = IF canvasRef THEN Append(handQueue, data) ELSE handQueue
    /\ lastSignal' = data
    /\ seqState' = Transition(data, seqState)
    /\ lateUpdate' = (lateUpdate \/ handsClosed)

\* React renders and commits: each useState takes the last queued value; the
\* effect is scheduled when its dependencies changed.  Passive effects of the
\* previous commit are flushed before a render starts.
Render ==
    /\ canvasRef
    /\ effect = NoEffect
    /\ handQueue # <<>> \/ treeQueue # <<>>
    /\ handData' = IF handQueue # <<>> THEN handQueue[Len(handQueue)] ELSE handData
    /\ treeState' = IF treeQueue # <<>> THEN treeQueue[Len(treeQueue)] ELSE treeState
    /\ handQueue' = <<>>
    /\ treeQueue' = <<>>
    /\ lastDeps' = Deps(handData', treeState')
    /\ effect' = IF lastDeps' # lastDeps
                 THEN [hand |-> handData', tree |-> treeState']
                 ELSE NoEffect
    /\ flips' = IF handQueue # <<>> THEN 0 ELSE flips
    /\ UNCHANGED <<trackerVars, sceneVars>>

\* the transition effect runs with the values of the render that scheduled it
RunEffect ==
    /\ canvasRef
    /\ effect # NoEffect
    /\ LET next == Transition(effect.hand, effect.tree)
       IN  /\ treeQueue' = IF next # effect.tree THEN Append(treeQueue, next) ELSE treeQueue
           /\ flips' = IF next # effect.tree THEN flips + 1 ELSE flips
    /\ effect' = NoEffect
    /\ UNCHANGED <<handData, handQueue, treeState, lastDeps, trackerVars, sceneVars>>

----------------------------------------------------------------------------
(* HandTracker.tsx: camera, detector callback, teardown *)

\* camera.onFrame: await hands.send({image})
CameraOnFrame ==
    /\ cameraOn
    /\ ~sendPending
    /\ sendPending' = TRUE
    /\ UNCHANGED <<sceneVars, reactVars, canvasRef, cleanupDue, cameraOn, handsClosed,
                   lastFrame, lastOutcome, lastSignal, seqState, lateResult, lateUpdate>>

\* if (!canvasCtx || !canvasRef.current) return;
CanvasGuardMissing == TRUE
CanvasGuard == canvasRef

\* hands.onResults callback for one detector result
OnResults(results) ==
    /\ sendPending
    /\ Len(handQueue) < MaxQueue
    /\ sendPending' = FALSE
    /\ lastFrame' = results
    /\ lateResult' = (lateResult \/ handsClosed)
    /\ IF ~CanvasGuard
       THEN /\ lastOutcome' = "guard"
            /\ lastSignal' = NoSignal
            /\ UNCHANGED <<handQueue, seqState, lateUpdate>>
       ELSE IF HasHand(results)
       THEN IF ClassifyThrows(results[1])
            THEN /\ lastOutcome' = "throw"
                 /\ lastSignal' = NoSignal
                 /\ UNCHANGED <<handQueue, seqState, lateUpdate>>
            ELSE /\ lastOutcome' = "update"
                 /\ OnHandUpdate(Classify(results[1]))
       ELSE /\ lastOutcome' = "update"
            /\ OnHandUpdate(NoHand)
    /\ UNCHANGED <<sceneVars, handData, treeState, treeQueue, effect, lastDeps, flips,
                   canvasRef, cleanupDue, cameraOn, handsClosed>>

\* after hands.close() a pending send may never produce a result
DropResult ==
    /\ sendPending
    /\ handsClosed
    /\ sendPending' = FALSE
    /\ UNCHANGED <<sceneVars, reactVars, canvasRef, cleanupDue, cameraOn, handsClosed,
                   lastFrame, lastOutcome, lastSignal, seqState, lateResult, lateUpdate>>

\* the tree is unmounted: React detaches the refs in the commit and runs the
\* effect cleanups afterwards
Unmount ==
    /\ canvasRef
    /\ canvasRef' = FALSE
    /\ cleanupDue' = TRUE
    /\ UNCHANGED <<sceneVars, reactVars, cameraOn, handsClosed, sendPending,
                   lastFrame, lastOutcome, lastSignal, seqState, lateResult, lateUpdate>>

\* return () => { camera.stop(); hands.close(); }
Cleanup ==
    /\ cleanupDue
    /\ cleanupDue' = FALSE
    /\ cameraOn' = FALSE
    /\ handsClosed' = TRUE
    /\ UNCHANGED <<sceneVars, reactVars, canvasRef, sendPending,
                   lastFrame, lastOutcome, lastSignal, seqState, lateResult, lateUpdate>>


----------------------------------------------------------------------------
(* Scene3D.tsx: shared arithmetic.  Lengths, scales and opacities are kept  *)
(* in thousandths; a smoothing factor is a fraction <<num, den>>.           *)

\* n / d rounded to the nearest integer (d > 0)
Round(n, d) == (2 * n + d) \div (2 * d)

Max(a, b) == IF a >= b THEN a ELSE b

\* const lerp = (a, b, t) => a + (b - a) * t
lerp(a, b, t) == a + Round((b - a) * t[1], t[2])

\* the frame deltas the model draws: 1/10 s, and a half-second hiccup
Deltas == {10, 50}

\* const t = delta * 2.5 (EmojiLayer)
OrnamentT(dt) == <<dt * 25, 1000>>

\* delta * 3 (TreeTopStar, CameraController)
SmoothT(dt) == <<dt * 3, 100>>

----------------------------------------------------------------------------
(* Scene3D.tsx: EmojiLayer *)

\* one OrnamentData of ornamentSets: positions inside the tree cone and on the
\* scatter shell, size in 0.5..0.9
Ornament(i) ==
    [ treePos    |-> <<1000 * i, 500 * i - 2000, -1000 * i>>,
      scatterPos |-> <<-16000 - 1000 * i, 20000, 8000 * i>>,
      size       |-> 500 + 100 * i ]

data == [i \in 1..LayerSize |-> Ornament(i)]

\* const target = treeState === TreeState.CLOSED ? o.treePos : o.scatterPos
Target(o, tree) == IF tree = CLOSED THEN o.treePos ELSE o.scatterPos

\* const s = treeState === TreeState.CLOSED ? o.size : o.size * 2.0
TargetSize(o, tree) == IF tree = CLOSED THEN o.size ELSE o.size * 2

\* dummy.scale.setScalar(lerp(dummy.scale.x, s, t)) for instances 1..i in
\* turn: the one dummy carries its scale from each instance to the next
RECURSIVE ScaleAfter(_, _, _, _)
ScaleAfter(i, start, tree, t) ==
    IF i = 0 THEN start
    ELSE lerp(ScaleAfter(i - 1, start, tree, t), TargetSize(data[i], tree), t)

EmojiLayerFrame(dt) ==
    LET t == OrnamentT(dt)
    IN  /\ currentPositions' =
              [i \in 1..LayerSize |->
                  [a \in 1..3 |-> lerp(currentPositions[i][a], Target(data[i], treeState)[a], t)]]
        /\ ornamentScale' = [i \in 1..LayerSize |-> ScaleAfter(i, dummyScale, treeState, t)]
        /\ dummyScale' = ScaleAfter(LayerSize, dummyScale, treeState, t)

----------------------------------------------------------------------------
(* Scene3D.tsx: TreeTopStar *)

\* const targetOpacity = treeState === TreeState.CLOSED ? 1 : 0
TargetOpacity(tree) == IF tree = CLOSED THEN 1000 ELSE 0

TreeTopStarFrame(dt) ==
    /\ opacityRef' = lerp(opacityRef, TargetOpacity(treeState), SmoothT(dt))
    /\ starScale' = Max(1, opacityRef')

----------------------------------------------------------------------------
(* Scene3D.tsx: CameraController.  targetCameraRotation is kept as the      *)
(* offsets <<position.y - 0.5, position.x - 0.5>> in hundredths: x stands   *)
(* for x * pi * 0.5 and y for y * pi.                                       *)

\* Math.PI in hundred-thousandths
PI == 314159

\* (handData.position.y - 0.5), (handData.position.x - 0.5)
TargetRotation(hand) == [x |-> hand.position[2] - 50, y |-> hand.position[1] - 50]

\* Math.sin and Math.cos of y * pi, in thousandths, at the yaw offsets drawn
SinYaw(y) ==
    CASE y = 0 -> 0
      [] y = 50 -> 1000
      [] y = -50 -> -1000
      [] y = 25 -> 707
      [] y = -25 -> -707
CosYaw(y) ==
    CASE y = 0 -> 1000
      [] y = 50 -> 0
      [] y = -50 -> 0
      [] y = 25 -> 707
      [] y = -25 -> 707

\* the camera position the controller steers to:
\* (dist * sin(y), x * 20 + 7, dist * cos(y)) with dist = 32
CameraGoal(rot) ==
    << 32 * SinYaw(rot.y),
       Round(rot.x * PI * 20, 20000) + 7000,
       32 * CosYaw(rot.y) >>

\* if (handData.detected) { targetCameraRotation.current.y = ...; .x = ... }
NextTargetRotationReset(hand, cur) == TargetRotation(hand)
NextTargetRotation(hand, cur) == IF hand.detected THEN TargetRotation(hand) ELSE cur

CameraControllerFrame(dt) ==
    /\ targetCameraRotation' = NextTargetRotation(handData, targetCameraRotation)
    /\ frameDetected' = handData.detected
    /\ cameraPosition' =
          [a \in 1..3 |-> lerp(cameraPosition[a], CameraGoal(targetCameraRotation')[a], SmoothT(dt))]

----------------------------------------------------------------------------
(* Scene3D.tsx: one rendered frame.  The frame loop advances the clock and  *)
(* calls every useFrame subscriber with the same delta.                     *)

Tick(dt) ==
    /\ canvasRef
    /\ frames < MaxFrames
    /\ frames' = frames + 1
    /\ clock' = clock + dt
    /\ lastDelta' = dt

\* CameraController, EmojiLayer and TreeTopStar
SmoothFrame(dt) ==
    /\ Tick(dt)
    /\ CameraControllerFrame(dt)
    /\ EmojiLayerFrame(dt)
    /\ TreeTopStarFrame(dt)
    /\ UNCHANGED <<reactVars, trackerVars, rippleVars, snow, textVars>>

----------------------------------------------------------------------------
(* Scene3D.tsx: BaseRipple.  Times are in hundredths of a second; a scale   *)
(* is kept as a numerator over ScaleDen, so that the product of the base    *)
(* size (ten-thousandths) and the opacity (cycle hundredths over the active *)
(* window) is exact.                                                        *)

ringsCount == 6
totalCount == ringsCount * particlesPerRing

\* 6.5 s, 0.9 s and 3.0 s
cycleDuration == 650
staggerTime == 90
activeWindow == 300

ScaleDen == 10000 * activeWindow

\* rippleData of instance i (0-based); randomOffset is in 0 .. 0.49, in hundredths
ringIndex(i) == i \div particlesPerRing
randomOffset(i) == (i * 17) % 50

\* the % of JavaScript: the sign of the dividend
JsMod(a, b) == IF a >= 0 THEN a % b ELSE -((-a) % b)

\* const cycleTime = (time - startTime) % cycleDuration
cycleTimeNoStagger(i, time) == JsMod(time, cycleDuration)
cycleTime(i, time) == JsMod(time - ringIndex(i) * staggerTime, cycleDuration)

\* neither early return is taken: time >= startTime and 0 <= progress <= 1.0
RippleActive(i, time) ==
    /\ ~(time < ringIndex(i) * staggerTime)
    /\ ~(cycleTime(i, time) > activeWindow \/ cycleTime(i, time) < 0)

\* const opacity = Math.max(0, 1 - progress), as a numerator over activeWindow
RippleOpacity(i, time) == Max(0, activeWindow - cycleTime(i, time))

\* const size = (0.08 + r.randomOffset * 0.15) * opacity, over ScaleDen
RippleSize(i, time) == (800 + randomOffset(i) * 15) * RippleOpacity(i, time)

\* the scale of the matrix written for instance i
RippleWrittenScale(i, time) == IF RippleActive(i, time) THEN RippleSize(i, time) ELSE 0

\* const baseRadius = isClosed ? 28 : 55
baseRadius(tree) == IF tree = CLOSED THEN 28 ELSE 55

\* 1 - Math.pow(1 - progress, 4), in thousandths
easeOutQuart(i, time) ==
    LET q  == Round((activeWindow - cycleTime(i, time)) * 1000, activeWindow)
        q2 == Round(q * q, 1000)
    IN  1000 - Round(q2 * q2, 1000)

\* const currentRadius = (easeOutQuart * baseRadius) + r.randomOffset * 10, in thousandths
currentRadius(i, time, tree) ==
    easeOutQuart(i, time) * baseRadius(tree) + randomOffset(i) * 100

\* the radial distance of dummy.position after instances 0 .. k-1: the early
\* returns leave the position of the shared dummy as it was
RECURSIVE DummyRadiusAfter(_, _, _, _)
DummyRadiusAfter(k, start, time, tree) ==
    IF k = 0 THEN start
    ELSE IF RippleActive(k - 1, time) THEN currentRadius(k - 1, time, tree)
    ELSE DummyRadiusAfter(k - 1, start, time, tree)

\* the ripple frame deltas: stalls of 0.9 s, 3 s and 3.5 s
RippleDeltas == {90, 300, 350}

BaseRippleFrame(dt) ==
    LET time == clock + dt
    IN  /\ rippleScale' = [i \in 0..(totalCount - 1) |-> RippleWrittenScale(i, time)]
        /\ rippleRadius' =
              [i \in 0..(totalCount - 1) |-> DummyRadiusAfter(i + 1, rippleDummy, time, treeState)]
        /\ rippleDummy' = DummyRadiusAfter(totalCount, rippleDummy, time, treeState)
        /\ rippleColor' =
              [i \in 0..(totalCount - 1) |->
                  IF RippleActive(i, time) THEN RippleOpacity(i, time) ELSE rippleColor[i]]
        \* setMatrixAt is reached on every path, setColorAt on the active one only
        /\ rippleMatrixAt' = [i \in 0..(totalCount - 1) |-> frames + 1]
        /\ rippleColorAt' =
              [i \in 0..(totalCount - 1) |->
                  IF RippleActive(i, time) THEN frames + 1 ELSE rippleColorAt[i]]

RippleFrame(dt) ==
    /\ Tick(dt)
    /\ BaseRippleFrame(dt)
    /\ UNCHANGED <<reactVars, trackerVars, smoothVars, snow, textVars>>

----------------------------------------------------------------------------
(* Scene3D.tsx: Snowfall.  Coordinates and speeds are in thousandths.       *)

\* Math.random() in thousandths, as drawn by the model
Randoms == {0, 500, 999}

\* (Math.random() - 0.5) * 60
SnowSpread(r) == (r - 500) * 60

\* emojiData of flake i: y in -15 .. 35, speed in 0.3 .. 1.5
SnowSeed(i) ==
    [ x |-> 12000, z |-> -7000,
      y |-> IF i % 2 = 1 THEN -15000 ELSE 34950,
      speed |-> IF i % 2 = 1 THEN 1450 ELSE 300 ]

\* s.speed * delta * 2
SnowDrop(s, dt) == Round(s.speed * dt * 2, 100)

\* one pass of the loop body for flake s: fall, then respawn below -20
SnowStepCheckFirst(s, dt, rx, rz) ==
    LET t == IF s.y < -20000
             THEN [s EXCEPT !.y = 30000, !.x = SnowSpread(rx), !.z = SnowSpread(rz)]
             ELSE s
    IN  [t EXCEPT !.y = t.y - SnowDrop(s, dt)]
SnowStep(s, dt, rx, rz) ==
    LET y == s.y - SnowDrop(s, dt)
    IN  IF y < -20000
        THEN [s EXCEPT !.y = 30000, !.x = SnowSpread(rx), !.z = SnowSpread(rz)]
        ELSE [s EXCEPT !.y = y]

\* the outcomes of one pass for flake s, over the draws of Math.random()
SnowOutcomes(s, dt) == { SnowStep(s, dt, rx, rz) : rx \in Randoms, rz \in Randoms }

\* emojiData after the loop has passed over flakes 1 .. k
RECURSIVE SnowAfter(_, _)
SnowAfter(k, dt) ==
    IF k = 0 THEN { <<>> }
    ELSE { Append(done, s) : done \in SnowAfter(k - 1, dt), s \in SnowOutcomes(snow[k], dt) }

SnowfallFrame(dt) == snow' \in SnowAfter(emojiCount, dt)

\* the snow frame deltas: none, 1/50 s, 1/2 s, and stalls of 2 s and 20 s
SnowDeltas == {0, 2, 50, 200, 2000}

SnowFrame(dt) ==
    /\ Tick(dt)
    /\ SnowfallFrame(dt)
    /\ UNCHANGED <<reactVars, trackerVars, smoothVars, rippleVars, textVars>>

----------------------------------------------------------------------------
(* Scene3D.tsx: MerryChristmasText.  Coordinates, colours and the sweep     *)
(* intensity are in thousandths, angles in thousandths of a radian, the     *)
(* written scale in millionths.                                             *)

Abs(a) == IF a >= 0 THEN a ELSE -a

\* Math.sin of an angle in 0 .. pi (thousandths of a radian), in thousandths:
\* Bhaskara's rational form 16 x (pi - x) / (5 pi^2 - 4 x (pi - x)), which is
\* within 0.002 of the sine
SinHalfTurn(x) ==
    LET pi == Round(PI, 100)
        q  == Round(x * (pi - x), 1000)
    IN  Round(16000 * q, Round(5 * pi * pi, 1000) - 4 * q)

\* Math.sin and Math.cos of a non-negative angle
Sin(a) ==
    LET pi == Round(PI, 100)
        r  == a % (2 * pi)
    IN  IF r <= pi THEN SinHalfTurn(r) ELSE -SinHalfTurn(r - pi)
Cos(a) == Sin(a + Round(PI, 200))

\* points.push({ x: (x - canvas.width / 2) * scale, y: ..., z: 0, id: Math.random() })
\* for sampled pixels of the rendered text: x steps by 4 * 0.035
particles ==
    [i \in 1..particleCount |->
        [ x |-> 140 * (20 * i - 50), y |-> 140 * (3 - 2 * i), z |-> 0, id |-> (i * 371) % 1000 ]]

sweepRange == 16000
sweepSpeed == 4

\* const sweepX = (time * sweepSpeed) % sweepRange - (sweepRange / 2)
sweepX(time) == JsMod(time * 10 * sweepSpeed, sweepRange) - sweepRange \div 2

\* const scaleBase = 0.06 + Math.sin(time * 2 + p.id * 20) * 0.015, in millionths
scaleBase(p, time) == 60000 + Sin(time * 20 + p.id * 20) * 15

\* let sweepIntensity = 0; if (isScattered) { dist = Math.abs(p.x - sweepX);
\* sweepIntensity = Math.pow(Math.max(0, 1.0 - dist / 2.0), 4.0) * 8.0 }
sweepBand(p, time) ==
    LET dist == Abs(p.x - sweepX(time))
        u    == Max(0, 1000 - Round(dist, 2))
        u2   == Round(u * u, 1000)
    IN  Round(u2 * u2, 1000) * 8
sweepIntensityAlways(p, time, tree) == sweepBand(p, time)
sweepIntensity(p, time, tree) == IF tree = SCATTERED THEN sweepBand(p, time) ELSE 0

\* dummy.scale.setScalar(scaleBase * (1.0 + sweepIntensity * 0.1))
TextWrittenScale(p, time, tree) ==
    Round(scaleBase(p, time) * (1000 + Round(sweepIntensity(p, time, tree), 10)), 1000)

\* const shimmer = 0.8 + Math.sin(time * 3 + p.id * 50) * 0.2
shimmer(p, time) == 800 + Round(Sin(time * 30 + p.id * 50) * 2, 10)

\* new THREE.Color(2.5, 2.0, 0.5) and new THREE.Color(4.0, 4.0, 4.0)
baseColor == <<2500, 2000, 500>>
scanColor == <<4000, 4000, 4000>>

\* baseColor.clone().multiplyScalar(shimmer)
ShimmerColor(p, time) == [c \in 1..3 |-> Round(baseColor[c] * shimmer(p, time), 1000)]

\* ... .lerp(scanColor, sweepIntensity * 0.2)
finalColor(p, time, tree) ==
    [c \in 1..3 |->
        lerp(ShimmerColor(p, time)[c], scanColor[c],
             <<sweepIntensity(p, time, tree) * 2, 10000>>)]

\* dummy.position.set(p.x + offsetX, p.y + offsetY, p.z)
TextWrittenPosition(p, time) ==
    << p.x + Round(Sin(time * 5 + p.id * 10) * 50, 1000),
       p.y + Round(Cos(time * 7 + p.id * 10) * 50, 1000),
       p.z >>

\* the text frame deltas: stalls of 0.5 s, 1 s and 1.5 s
TextDeltas == {50, 100, 150}

MerryChristmasTextFrame(dt) ==
    LET time == clock + dt
    IN  /\ textIntensity' = [i \in 1..particleCount |-> sweepIntensity(particles[i], time, treeState)]
        /\ textPosition' = [i \in 1..particleCount |-> TextWrittenPosition(particles[i], time)]
        /\ textScale' = [i \in 1..particleCount |-> TextWrittenScale(particles[i], time, treeState)]
        /\ textColor' = [i \in 1..particleCount |-> finalColor(particles[i], time, treeState)]

TextFrame(dt) ==
    /\ Tick(dt)
    /\ MerryChristmasTextFrame(dt)
    /\ UNCHANGED <<reactVars, trackerVars, smoothVars, rippleVars, snow>>

\* the detector results the scene specifications draw
SceneFrames == { <<>>, <<OpenHand>>, <<FistHand>> }
HandFrames == { <<OpenHand>>, <<FistHand>> }

\* the formation machine as the scene sees it, fed with the given results
Formation(inputs) ==
    \/ CameraOnFrame
    \/ \E results \in inputs : OnResults(results)
    \/ Render
    \/ RunEffect

----------------------------------------------------------------------------
(* The state after the first commit: both components mounted, the camera    *)
(* started, the transition effect of the mount scheduled.                   *)

Init ==
    /\ handData = NoHand
    /\ handQueue = <<>>
    /\ treeState = CLOSED
    /\ treeQueue = <<>>
    /\ effect = [hand |-> NoHand, tree |-> CLOSED]
    /\ lastDeps = Deps(NoHand, CLOSED)
    /\ flips = 0
    /\ canvasRef = TRUE
    /\ cleanupDue = FALSE
    /\ cameraOn = TRUE
    /\ handsClosed = FALSE
    /\ sendPending = FALSE
    /\ lastFrame = NoFrame
    /\ lastOutcome = "none"
    /\ lastSignal = NoSignal
    /\ seqState = CLOSED
    /\ lateResult = FALSE
    /\ lateUpdate = FALSE
    /\ clock = 0
    /\ frames = 0
    /\ lastDelta = 0
    /\ currentPositions = [i \in 1..LayerSize |-> data[i].treePos]
    /\ dummyScale = 1000
    /\ ornamentScale = [i \in 1..LayerSize |-> 1000]
    /\ opacityRef = 1000
    /\ starScale = 1000
    /\ targetCameraRotation = [x |-> 0, y |-> 0]
    /\ cameraPosition = <<0, 5000, 32000>>
    /\ frameDetected = FALSE
    /\ rippleDummy = 0
    /\ rippleScale = [i \in 0..(totalCount - 1) |-> ScaleDen]
    /\ rippleRadius = [i \in 0..(totalCount - 1) |-> 0]
    /\ rippleColor = [i \in 0..(totalCount - 1) |-> -1]
    /\ rippleMatrixAt = [i \in 0..(totalCount - 1) |-> 0]
    /\ rippleColorAt = [i \in 0..(totalCount - 1) |-> 0]
    /\ snow = [i \in 1..emojiCount |-> SnowSeed(i)]
    /\ textPosition = [i \in 1..particleCount |-> <<0, 0, 0>>]
    /\ textScale = [i \in 1..particleCount |-> 1000000]
    /\ textColor = [i \in 1..particleCount |-> <<1000, 1000, 1000>>]
    /\ textIntensity = [i \in 1..particleCount |-> 0]

Next ==
    \/ CameraOnFrame
    \/ \E results \in Frames : OnResults(results)
    \/ DropResult
    \/ Render
    \/ RunEffect
    \/ Unmount
    \/ Cleanup

Spec == Init /\ [][Next]_vars

SmoothNext ==
    \/ Formation(SceneFrames)
    \/ \E dt \in Deltas : SmoothFrame(dt)

SpecSmooth == Init /\ [][SmoothNext]_vars

RippleNext ==
    \/ Formation(HandFrames)
    \/ \E dt \in RippleDeltas : RippleFrame(dt)

SpecRipple == Init /\ [][RippleNext]_vars

SnowNext == \E dt \in SnowDeltas : SnowFrame(dt)

SpecSnow == Init /\ [][SnowNext]_vars

TextNext ==
    \/ Formation(HandFrames)
    \/ \E dt \in TextDeltas : TextFrame(dt)

SpecText == Init /\ [][TextNext]_vars

----------------------------------------------------------------------------
(* Formation state machine and hand tracker: properties *)

\* the committed hand update has been processed: its effect has run and the
\* state change the effect asked for has been rendered
Settled == effect = NoEffect /\ treeQueue = <<>>

\* C1: once a hand update with detected=true has been processed, the formation
\* state is SCATTERED if and only if that update had isOpen=true (so an open
\* hand moves GATHERED to SCATTERED, a closed hand moves SCATTERED to GATHERED
\* and a repeated update leaves the state where the first one put it).
C1_DetectedDecidesState ==
    (canvasRef /\ handData.detected /\ Settled)
        => (treeState = SCATTERED <=> handData.isOpen)

C1_Witness ==
    /\ canvasRef /\ handData.detected /\ Settled
    /\ handData.isOpen /\ treeState = SCATTERED
    /\ lastDeps = Deps(handData, SCATTERED)

\* C2: processing a hand update with detected=false never changes the formation
\* state: the effect run for it queues no state change and the committed state
\* stays what it was.
C2_AbsentHandKeepsState ==
    [][ (effect # NoEffect /\ ~effect.hand.detected /\ effect' = NoEffect)
            => (treeQueue' = treeQueue /\ treeState' = treeState /\ treeState = effect.tree) ]_vars

C2_Witness ==
    /\ canvasRef /\ ~handData.detected /\ Settled
    /\ treeState = SCATTERED
    /\ lastDeps = Deps(handData, SCATTERED)

\* C3: after the last detector callback has been processed the formation state
\* equals the transition rules applied to every callback's signal one at a
\* time in delivery order.
C3_CallbackOrderApplied ==
    (canvasRef /\ handQueue = <<>> /\ Settled) => treeState = seqState

\* C4: after the HandTracker cleanup has run, onHandUpdate is never invoked,
\* even for a detector frame that was in flight when teardown began.
C4_NoUpdateAfterTeardown == ~lateUpdate

C4_Witness == lateResult /\ lastOutcome = "guard" /\ ~sendPending /\ ~lateUpdate

\* a landmark frame with fewer points than required
Incomplete(landmarks) == \E idx \in {0, 8, 9, 12, 16, 20} : idx >= Len(landmarks)

\* C5: an incomplete landmark frame produces the same signal as no detection
\* and the callback completes without raising an error.
C5_IncompleteFrameRejected ==
    (lastOutcome \in {"update", "throw"} /\ HasHand(lastFrame) /\ Incomplete(lastFrame[1]))
        => (lastOutcome = "update" /\ lastSignal = NoHand)

\* four times the mean wrist-to-fingertip distance of a complete frame
MeanDistTimes4(landmarks) ==
    Dist(landmarks[9], landmarks[1]) + Dist(landmarks[13], landmarks[1])
        + Dist(landmarks[17], landmarks[1]) + Dist(landmarks[21], landmarks[1])

\* C8: for every detected landmark frame the classifier yields isOpen=true
\* exactly when the mean wrist-to-fingertip distance is strictly greater than
\* 0.35 (exactly 0.35 is closed), whatever came before the frame.
C8_OpenIffMeanAboveThreshold ==
    (lastOutcome = "update" /\ HasHand(lastFrame))
        => /\ lastSignal.detected
           /\ lastSignal.isOpen <=> (MeanDistTimes4(lastFrame[1]) > 140)

C8_Witness ==
    /\ lastOutcome = "update"
    /\ lastFrame = <<BoundaryHand>>
    /\ MeanDistTimes4(lastFrame[1]) = 140
    /\ lastSignal.detected /\ ~lastSignal.isOpen

----------------------------------------------------------------------------
(* Scene: properties *)

Min(a, b) == IF a <= b THEN a ELSE b

\* x lies on the segment from a to b
Between(a, x, b) == Min(a, b) <= x /\ x <= Max(a, b)

\* a frame has been rendered by this step
FrameStep == frames' = frames + 1

\* C6: in every frame the smoothing factors used for ornament position
\* (2.5*dt), emblem opacity (3*dt) and camera position (3*dt) do not exceed 1,
\* and no smoothed value passes beyond its target.
C6_DeltaClamped ==
    [][ FrameStep =>
          /\ 25 * lastDelta' <= 1000
          /\ 3 * lastDelta' <= 100
          /\ \A i \in 1..LayerSize : \A a \in 1..3 :
                Between(currentPositions[i][a], currentPositions'[i][a],
                        Target(data[i], treeState)[a])
          /\ Between(opacityRef, opacityRef', TargetOpacity(treeState))
          /\ \A a \in 1..3 :
                Between(cameraPosition[a], cameraPosition'[a],
                        CameraGoal(targetCameraRotation')[a]) ]_vars

\* C7: with a constant deltaTime every ornament's interpolated position moves
\* monotonically toward its target: on each axis the distance to the target
\* strictly decreases from one frame to the next while it is non-zero, and the
\* position stays between its previous value and the target.
C7_MonotoneApproach ==
    [][ (FrameStep /\ (frames = 0 \/ lastDelta' = lastDelta)) =>
          \A i \in 1..LayerSize : \A a \in 1..3 :
              LET goal == Target(data[i], treeState)[a]
                  was  == currentPositions[i][a]
                  now  == currentPositions'[i][a]
              IN  /\ was # goal => Abs(goal - now) < Abs(goal - was)
                  /\ Between(was, now, goal) ]_vars

\* C9: after a frame at time t, an instance of ring 0 has scale > 0 if and
\* only if (t mod 6.5) < 3.0; an instance of ring r has scale 0 for every
\* t < r*0.9 and for every t whose offset ((t - r*0.9) mod 6.5) is at or
\* beyond 3.0, in both formation states.
C9_RippleWindow ==
    frames > 0 =>
        \A i \in 0..(totalCount - 1) :
            LET r == i \div particlesPerRing
            IN  /\ r = 0 => (rippleScale[i] > 0 <=> (clock % 650) < 300)
                /\ clock < r * 90 => rippleScale[i] = 0
                /\ (clock >= r * 90 /\ ((clock - r * 90) % 650) >= 300) => rippleScale[i] = 0

C9_Witness ==
    /\ frames > 0
    /\ treeState = SCATTERED
    /\ clock % 650 = 300
    /\ rippleScale[0] = 0
    /\ \E i \in 0..(totalCount - 1) : rippleScale[i] > 0

\* C10: a flake whose y drops below -20 in a frame is respawned in that frame
\* with y > 25 and x, z within [-30, 30]; after every frame no flake has
\* y < -20, and every flake that is not respawned has fallen (by
\* speed * deltaTime * 2, which is below its old y when deltaTime > 0).
C10_SnowRespawn ==
    [][ FrameStep =>
          \A i \in 1..emojiCount :
              LET fallen == snow[i].y - (snow[i].speed * lastDelta' * 2) \div 100
              IN  /\ snow'[i].y >= -20000
                  /\ snow'[i].x \in -30000..30000
                  /\ snow'[i].z \in -30000..30000
                  /\ IF fallen < -20000
                     THEN snow'[i].y > 25000
                     ELSE /\ snow'[i].y = fallen
                          /\ lastDelta' > 0 => snow'[i].y < snow[i].y ]_vars

\* a flake that was respawned in one frame and fell in the next
C10_Witness ==
    \E i \in 1..emojiCount :
        /\ snow[i].x # SnowSeed(i).x
        /\ snow[i].y < 30000
        /\ snow[i].y > 25000

----------------------------------------------------------------------------
(* Scene3D.tsx: instance buffers *)

\* C11: on every frame the ripple population writes a transform and a color
\* for every one of its instances: after a frame update no entry of the
\* transform buffer or of the color buffer still holds a value written on an
\* earlier frame, instances outside their active window included.
C11_BuffersRewritten ==
    \A i \in 0..(totalCount - 1) :
        /\ ~(0 < rippleMatrixAt[i] /\ rippleMatrixAt[i] < frames)
        /\ ~(0 < rippleColorAt[i] /\ rippleColorAt[i] < frames)

----------------------------------------------------------------------------
(* Scene3D.tsx: CameraController, properties *)

\* C12: the camera's target yaw and pitch-proxy change only on frames whose
\* gesture signal has detected=true, where they become the offsets
\* position.x - 0.5 (times pi) and position.y - 0.5 (times pi * 0.5); on a
\* frame with detected=false both keep the value of the last detected frame
\* and are not reset from the (0,0) position of the not-detected signal.
C12_TargetHeldWithoutHand ==
    [][ /\ (FrameStep /\ handData.detected) =>
               /\ targetCameraRotation'.y = handData.position[1] - 50
               /\ targetCameraRotation'.x = handData.position[2] - 50
        /\ ~(FrameStep /\ handData.detected) =>
               targetCameraRotation' = targetCameraRotation ]_vars

\* a frame run without a hand after a frame that had steered the target
C12_Witness ==
    /\ frames = 2
    /\ ~frameDetected
    /\ targetCameraRotation = [x |-> 20, y |-> 0]

----------------------------------------------------------------------------
(* Scene3D.tsx: EmojiLayer, properties *)

\* C13: while the formation state stays fixed (here: GATHERED, no hand update
\* ever delivered) and the smoothing factor is at most 1, the scale written
\* for ornament i on a frame is the lerp of ornament i's own previous scale
\* toward ornament i's own target, so it is no farther from that target than
\* before and does not depend on the scale of any other ornament.
C13_OwnScaleOnly ==
    [][ ( /\ FrameStep
          /\ frames >= 1
          /\ lastOutcome = "none" /\ treeState = CLOSED
          /\ OrnamentT(lastDelta')[1] <= OrnamentT(lastDelta')[2] )
        => \A i \in 1..LayerSize :
              LET s == TargetSize(data[i], treeState)
              IN  /\ ornamentScale'[i] = lerp(ornamentScale[i], s, OrnamentT(lastDelta'))
                  /\ Abs(s - ornamentScale'[i]) <= Abs(s - ornamentScale[i]) ]_vars

----------------------------------------------------------------------------
(* Scene3D.tsx: MerryChristmasText, properties *)

\* C14: the traveling highlight of the text banner is active only while the
\* formation state is SCATTERED: on every frame rendered in the GATHERED state
\* the sweep intensity of every glyph instance is 0, its scale is the
\* un-boosted base scale and its color is the shimmering base color with no
\* blend toward the highlight color, wherever the sweep is.
C14_NoSweepWhileGathered ==
    [][ (FrameStep /\ treeState = CLOSED) =>
            \A i \in 1..particleCount :
                /\ textIntensity'[i] = 0
                /\ textScale'[i] = scaleBase(particles[i], clock')
                /\ textColor'[i] = ShimmerColor(particles[i], clock') ]_vars

\* a frame in which the sweep is within half a unit of a glyph and no glyph
\* is highlighted
C14_Witness ==
    /\ frames > 0
    /\ \E i \in 1..particleCount : Abs(particles[i].x - sweepX(clock)) < 500
    /\ \A i \in 1..particleCount :
          /\ textIntensity[i] = 0
          /\ textScale[i] = scaleBase(particles[i], clock)

----------------------------------------------------------------------------
(* App.tsx: the transition effect, termination *)

\* C15: the effect-driven formation machine settles: after a committed hand
\* update the transition effect requests a change of the formation state at
\* most once, and once its request is rendered and the effect has run again
\* the effect's body asks for nothing, so without further hand updates the
\* state does not oscillate and no further render is due.
C15_EffectSettles ==
    /\ flips <= 1
    /\ (canvasRef /\ handQueue = <<>> /\ Settled) =>
          /\ Transition(handData, treeState) = treeState
          /\ ~ENABLED Render
          /\ ~ENABLED RunEffect

\* the effect changed the state once, was re-run by the treeState dependency
\* and asked for nothing
C15_Witness ==
    /\ canvasRef /\ handQueue = <<>> /\ Settled
    /\ flips = 1
    /\ lastDeps = Deps(handData, treeState)

====
